---- MODULE Spec2Model ----
(***************************************************************************)
(* A model of the yt-dlp post-processor plugin ChannelMappingPP            *)
(* (yt_dlp_plugins/postprocessor/channel_mapping.py): the configuration    *)
(* loader, the first-match lookup, the path rewriter, the lifecycle guard, *)
(* the top-level run and the cleanup step it schedules.                    *)
(*                                                                         *)
(* A metadata record (Python dict) is a function whose DOMAIN is the set   *)
(* of keys present.  A mapping document (an insertion-ordered dict) is a   *)
(* sequence of categories; a category's "field" dict is a sequence of      *)
(* [name, map] entries, in declaration order.  A raised exception is a     *)
(* record [type, msg, about, allowed]; NoExc stands for a normal return.   *)
(***************************************************************************)
EXTENDS Integers, Sequences, FiniteSets, TLC

VARIABLES
    phase,            \* "new" before __init__, then "ready" or "failed"
    env,              \* the config path's extension, YAML engine, file system answers
    config_file,      \* the file at the config path: [present, syntax, doc]
    mapping,          \* self._mapping
    mapped_fields,    \* self.mapped_fields
    outtmpl,          \* params["outtmpl"]["default"], a sequence of template tokens
    postprocessors,   \* params["postprocessors"]
    paths,            \* params["paths"]
    fs_dirs,          \* the directories os.makedirs has created
    after_video_pps,  \* the steps add_post_processor has registered
    info,             \* the metadata record the last operation returned
    runs,             \* the number of run() calls made so far
    call              \* the last operation: its name, arguments, outcome

vars == <<phase, env, config_file, mapping, mapped_fields, outtmpl, postprocessors,
          paths, fs_dirs, after_video_pps, info, runs, call>>

---------------------------------------------------------------------------
(* Bounds of the model *)

MaxCats == 2
MaxRuns == 2
MaxPPs == 2

---------------------------------------------------------------------------
(* Values *)

Range(s) == {s[i] : i \in 1..Len(s)}

NoExc == [type |-> "", msg |-> "", about |-> "", allowed |-> <<>>]

Exc(type, msg, about) == [type |-> type, msg |-> msg, about |-> about, allowed |-> <<>>]

EmptyInfo == [k \in {} |-> ""]

\* dict.get(key, default)
Get(d, key, default) == IF key \in DOMAIN d THEN d[key] ELSE default

\* dict.update({key: value})
Update(d, key, value) == [k \in DOMAIN d \cup {key} |-> IF k = key THEN value ELSE d[k]]

\* dict.pop(key, None)
Pop(d, key) == [k \in DOMAIN d \ {key} |-> d[k]]

\* the {} that find_category returns on a miss
EmptyCategory == [name |-> "", home |-> "", temp |-> "", field |-> <<>>]

NoMap == [k \in {} |-> ""]

MAPPING_CONFIG_TEMPLATE ==
    << [name |-> "uncategorized", home |-> "", temp |-> "",
        field |-> << [name |-> "channel",
                      map |-> [k \in {"MIT OpenCourseWare", "<CHANNEL NAME>"} |->
                                 IF k = "MIT OpenCourseWare" THEN "OCW - MIT"
                                                             ELSE "<NEW CHANNEL NAME>"]],
                     [name |-> "<FIELD NAME>", map |-> NoMap] >>],
       [name |-> "<CATEGORY>", home |-> "<TARGET LOCATION>", temp |-> "<TEMP LOCATION>",
        field |-> << [name |-> "<FIELD NAME>",
                      map |-> [k \in {"<ORIGINAL FIELD VALUE>"} |-> "<NEW FIELD VALUE>"]] >>] >>

PLACEHOLDER == "%(mapped_channel)s"

PP_KEY == "ChannelMapping"

supported_pp_positions == <<"pre_process", "after_filter", "video">>

---------------------------------------------------------------------------
(* Configuration loader *)

NoFile == [present |-> FALSE, syntax |-> "", doc |-> <<>>]

\* str.lower() on the extensions the model draws
Lower(ext) ==
    CASE ext = ".JSON" -> ".json"
      [] ext = ".YML" -> ".yml"
      [] OTHER -> ext

\* sorted() order of the dict keys the template holds (code point order)
CodepointOrder == <<"<CATEGORY>", "<FIELD NAME>", "channel", "uncategorized", "uploader">>

\* a sequence of named entries, reordered by name as yaml.dump(sort_keys=True) does
SortByName(entries) ==
    LET names == {entries[i].name : i \in 1..Len(entries)}
        order == SelectSeq(CodepointOrder, LAMBDA n : n \in names)
    IN  [i \in 1..Len(order) |->
            entries[CHOOSE j \in 1..Len(entries) : entries[j].name = order[i]]]

\* what the file holds after save_func(data, f, indent=4): json.dump keeps the
\* insertion order, yaml.dump sorts the keys of every mapping
Dump(file_type, data) ==
    IF file_type = "YAML"
    THEN SortByName([i \in 1..Len(data) |->
                        [data[i] EXCEPT !.field = SortByName(data[i].field)]])
    ELSE data

check_config_type(e) ==
    LET ext == Lower(e.ext)
    IN  IF ext \in {".json"} THEN [exc |-> NoExc, type |-> "JSON"]
        ELSE IF ext \in {".yaml", ".yml"} /\ e.yaml THEN [exc |-> NoExc, type |-> "YAML"]
        ELSE [exc |-> Exc("ValueError", "Unsupported file type", ext), type |-> ""]

\* _save_file: open(file_path, "w") and the dump
_save_file(data, file_type, e) ==
    IF file_type \notin {"JSON", "YAML"}
    THEN [exc |-> Exc("ValueError", "Unsupported file type", file_type), file |-> NoFile]
    ELSE IF ~e.write_ok
    THEN [exc |-> Exc("OSError", "open", "config_path"), file |-> NoFile]
    ELSE [exc |-> NoExc,
          file |-> [present |-> TRUE, syntax |-> file_type, doc |-> Dump(file_type, data)]]

\* _load_file: open(file_path, "r") and the parse; yaml.safe_load also reads JSON text
_load_file(file, file_type, e) ==
    IF file_type \notin {"JSON", "YAML"}
    THEN [exc |-> Exc("ValueError", "Unsupported file type", file_type), doc |-> <<>>]
    ELSE IF ~e.read_ok
    THEN [exc |-> Exc("OSError", "open", "config_path"), doc |-> <<>>]
    ELSE IF file.syntax = "garbage" \/ (file_type = "JSON" /\ file.syntax = "YAML")
    THEN [exc |-> Exc("ParseError", "decode", "config_path"), doc |-> <<>>]
    ELSE [exc |-> NoExc, doc |-> file.doc]

write_mapping_template(file, e) ==
    IF ~e.dir_ok
    THEN [exc |-> Exc("OSError", "makedirs", "dirname(config_path)"),
          file |-> file, screen |-> <<>>]
    ELSE LET t == check_config_type(e)
             s == _save_file(MAPPING_CONFIG_TEMPLATE, t.type, e)
         IN  IF t.exc # NoExc \/ s.exc # NoExc
             THEN [exc |-> Exc("IOError", "Can't write mapping file", "config_path"),
                   file |-> file, screen |-> <<>>]
             ELSE [exc |-> NoExc, file |-> s.file,
                   screen |-> <<[kind |-> "warning", a |-> "Mapping file not found", b |-> "config_path"]>>]

load_mapping(file, e) ==
    LET w == IF ~file.present THEN write_mapping_template(file, e)
                              ELSE [exc |-> NoExc, file |-> file, screen |-> <<>>]
        t == check_config_type(e)
        l == _load_file(w.file, t.type, e)
    IN  IF w.exc # NoExc THEN [exc |-> w.exc, doc |-> <<>>, file |-> w.file, screen |-> w.screen]
        ELSE IF t.exc # NoExc THEN [exc |-> t.exc, doc |-> <<>>, file |-> w.file, screen |-> w.screen]
        ELSE [exc |-> l.exc, doc |-> l.doc, file |-> w.file, screen |-> w.screen]
---------------------------------------------------------------------------
(* Lookup engine *)

RECURSIVE FindFieldFrom(_, _, _)
\* the loop of find_field from the j-th entry of the category's "field" dict on
FindFieldFrom(original_channel, fields, j) ==
    IF j > Len(fields) THEN [field |-> "", value |-> ""]
    ELSE LET new_field_name == Get(fields[j].map, original_channel, "")
         IN  IF new_field_name # ""
             THEN [field |-> fields[j].name, value |-> new_field_name]
             ELSE FindFieldFrom(original_channel, fields, j + 1)

\* a find_field that stops at the first field holding the key, whatever its value
find_field_key_present(original_channel, category_dict) ==
    LET fields == category_dict.field
        hits == {j \in 1..Len(fields) : original_channel \in DOMAIN fields[j].map}
    IN  IF hits = {} THEN [field |-> "", value |-> ""]
        ELSE LET j == CHOOSE x \in hits : \A y \in hits : x <= y
             IN  [field |-> fields[j].name, value |-> fields[j].map[original_channel]]

find_field(original_channel, category_dict) ==
    FindFieldFrom(original_channel, category_dict.field, 1)

RECURSIVE FindCategoryFrom(_, _, _, _)
\* the loop of find_category from the i-th category of the document on
FindCategoryFrom(original_channel, default, doc, i) ==
    IF i > Len(doc) THEN [category |-> EmptyCategory, field |-> "", value |-> default]
    ELSE LET f == find_field(original_channel, doc[i])
         IN  IF f.value # ""
             THEN [category |-> doc[i], field |-> f.field, value |-> f.value]
             ELSE FindCategoryFrom(original_channel, default, doc, i + 1)

find_category(original_channel, default, doc) ==
    FindCategoryFrom(original_channel, default, doc, 1)

---------------------------------------------------------------------------
(* Path rewriter *)

HomeDir(i) == "/srv/media/c" \o ToString(i)

TempDir(i) == "tmp/c" \o ToString(i)

AbsoluteDirs == {HomeDir(i) : i \in 1..MaxCats} \cup {"/downloads"}

\* os.path.realpath: a relative path is resolved against the working directory
RealPath(p) == IF p = "" \/ p \in AbsoluteDirs THEN p ELSE "/cwd/" \o p

\* os.makedirs(p, exist_ok=True); unwritable are the directories that cannot be created
makedirs(p, dirs, unwritable) ==
    IF p \in dirs THEN [exc |-> NoExc, dirs |-> dirs]
    ELSE IF p \in unwritable THEN [exc |-> Exc("OSError", "makedirs", p), dirs |-> dirs]
    ELSE [exc |-> NoExc, dirs |-> dirs \cup {p}]

\* a change_path without the early return for a category that lacks the directory
change_path_without_return(category, dir_type, st, unwritable) ==
    LET new_location == IF dir_type = "home" THEN category.home ELSE category.temp
        resolved == RealPath(new_location)
        m == makedirs(resolved, st.dirs, unwritable)
    IN  IF m.exc # NoExc
        THEN [exc |-> m.exc, paths |-> st.paths, dirs |-> m.dirs]
        ELSE [exc |-> NoExc, paths |-> Update(st.paths, dir_type, resolved), dirs |-> m.dirs]

\* st is [paths, dirs]: params["paths"] and the directories that exist
change_path(category, dir_type, st, unwritable) ==
    LET new_location == IF dir_type = "home" THEN category.home ELSE category.temp
    IN  IF new_location = "" THEN [exc |-> NoExc, paths |-> st.paths, dirs |-> st.dirs]
        ELSE LET resolved == RealPath(new_location)
                 m == makedirs(resolved, st.dirs, unwritable)
             IN  IF m.exc # NoExc
                 THEN [exc |-> m.exc, paths |-> st.paths, dirs |-> m.dirs]
                 ELSE [exc |-> NoExc, paths |-> Update(st.paths, dir_type, resolved),
                       dirs |-> m.dirs]

---------------------------------------------------------------------------
(* Lifecycle guard *)

RECURSIVE PPPositionFrom(_, _)
\* the enumerate loop of check_pp_position: the index of the first entry with the
\* plugin's key, -1 when there is none
PPPositionFrom(pp_list, i) ==
    IF i > Len(pp_list) THEN -1
    ELSE IF Get(pp_list[i], "key", "") = PP_KEY THEN i
    ELSE PPPositionFrom(pp_list, i + 1)

\* a guard that indexes the list with the -1 of a failed search: Python's pp_list[-1]
check_pp_position_unguarded_index(pp_list) ==
    LET pp_position == PPPositionFrom(pp_list, 1)
        pp_exec_info == IF pp_position >= 1 THEN pp_list[pp_position]
                        ELSE IF Len(pp_list) > 0 THEN pp_list[Len(pp_list)] ELSE EmptyInfo
        pp_exec_position == Get(pp_exec_info, "when", "post_process")
    IN  IF pp_exec_position \notin Range(supported_pp_positions)
        THEN [type |-> "ValueError", msg |-> "Invalid \"when\" value",
              about |-> pp_exec_position, allowed |-> supported_pp_positions]
        ELSE NoExc

check_pp_position(pp_list) ==
    LET pp_position == PPPositionFrom(pp_list, 1)
        pp_exec_info == IF pp_position >= 1 THEN pp_list[pp_position] ELSE EmptyInfo
        pp_exec_position == Get(pp_exec_info, "when", "post_process")
    IN  IF pp_exec_position \notin Range(supported_pp_positions)
        THEN [type |-> "ValueError", msg |-> "Invalid \"when\" value",
              about |-> pp_exec_position, allowed |-> supported_pp_positions]
        ELSE NoExc

---------------------------------------------------------------------------
(* Top-level run.  st is the state a run reads and writes:                 *)
(* [mapping, mapped_fields, paths, dirs, pps]; unwritable is what the file *)
(* system answers during the call.                                         *)

\* result of a call that raised: state as left behind by the code before the raise
Raised(exc, information, st, screen) ==
    [exc |-> exc, deletable |-> <<>>, info |-> information, st |-> st, screen |-> screen]

\* a gate that only asks whether an output template is configured
is_mapping_used_any_template(file_template) == file_template # <<>>

is_mapping_used(file_template) ==
    \E i \in 1..Len(file_template) : file_template[i] = PLACEHOLDER

\* a mapping step that injects the key without recording it for the cleanup
mapping_before_download_unrecorded(information, st, unwritable) ==
    LET original_channel == Get(information, "channel", "")
        found == find_category(original_channel, original_channel, st.mapping)
        mapped_field_name == "mapped_" \o (IF found.field # "" THEN found.field ELSE "channel")
    IN  [exc |-> NoExc, deletable |-> <<>>,
         info |-> Update(information, mapped_field_name, found.value),
         st |-> st, screen |-> <<>>]

mapping_before_download(information, st, unwritable) ==
    LET original_channel == Get(information, "channel", "")
        found == find_category(original_channel, original_channel, st.mapping)
        h == change_path(found.category, "home", [paths |-> st.paths, dirs |-> st.dirs],
                         unwritable)
        t == change_path(found.category, "temp", [paths |-> h.paths, dirs |-> h.dirs],
                         unwritable)
        mapped_field_name == "mapped_" \o (IF found.field # "" THEN found.field ELSE "channel")
        notice == <<[kind |-> "screen", a |-> original_channel, b |-> found.value]>>
    IN  IF h.exc # NoExc
        THEN Raised(h.exc, information, [st EXCEPT !.paths = h.paths, !.dirs = h.dirs], <<>>)
        ELSE IF t.exc # NoExc
        THEN Raised(t.exc, information, [st EXCEPT !.paths = t.paths, !.dirs = t.dirs], <<>>)
        ELSE [exc |-> NoExc, deletable |-> <<>>,
              info |-> Update(information, mapped_field_name, found.value),
              st |-> [st EXCEPT !.paths = t.paths, !.dirs = t.dirs,
                                !.mapped_fields = Append(@, mapped_field_name)],
              screen |-> notice]

mapping_after_download(information, st) ==
    Raised(Exc("NotImplementedError", "Not implemented yet", "pre_process"),
           information, st, <<>>)

\* a dispatch without the filepath test
main_processing_always_before(information, st, unwritable) ==
    mapping_before_download(information, st, unwritable)

main_processing(information, st, unwritable) ==
    IF Get(information, "filepath", "") = ""
    THEN mapping_before_download(information, st, unwritable)
    ELSE LET r == mapping_after_download(information, st)
         IN  IF r.exc.type = "NotImplementedError"
             THEN Raised(Exc("PostProcessingError", "Not implemented yet", "pre_process"),
                         information, r.st, <<>>)
             ELSE r

\* the PostCleanupPP that _post_cleanup(keys) builds; keys is the list object
\* self.mapped_fields itself, registered_with is what it held at that moment
_post_cleanup(keys) == [name |-> "PostCleanupPP", registered_with |-> keys]

\* a step that iterates over a copy of the list taken when it was registered
CleanupKeysCopied(step, fields) == step.registered_with

\* the keys a registered step iterates over when it runs: the closure holds the
\* plugin's list object, not a copy
CleanupKeys(step, fields) == fields

add_post_processor(pps, pp, when) == Append(pps, [pp |-> pp, when |-> when])

\* a run that registers the cleanup step in an else branch instead of finally
run_cleanup_on_success(information, file_template, pp_list, st, unwritable) ==
    IF ~is_mapping_used(file_template)
    THEN [exc |-> NoExc, swallowed |-> NoExc, deletable |-> <<>>, info |-> information,
          st |-> st, screen |-> <<>>]
    ELSE LET pos == check_pp_position(pp_list)
             r == IF pos # NoExc THEN Raised(pos, information, st, <<>>)
                  ELSE main_processing(information, st, unwritable)
         IN  [exc |-> NoExc, swallowed |-> r.exc, deletable |-> r.deletable, info |-> r.info,
              st |-> IF r.exc # NoExc THEN r.st
                     ELSE [r.st EXCEPT !.pps = add_post_processor(
                                     @, _post_cleanup(r.st.mapped_fields), "after_video")],
              screen |-> r.screen]

\* exc is what run lets out to the host, swallowed what its try block caught
run(information, file_template, pp_list, st, unwritable) ==
    IF ~is_mapping_used(file_template)
    THEN [exc |-> NoExc, swallowed |-> NoExc, deletable |-> <<>>, info |-> information,
          st |-> st, screen |-> <<>>]
    ELSE LET pos == check_pp_position(pp_list)
             r == IF pos # NoExc THEN Raised(pos, information, st, <<>>)
                  ELSE main_processing(information, st, unwritable)
         IN  [exc |-> NoExc, swallowed |-> r.exc, deletable |-> r.deletable, info |-> r.info,
              st |-> [r.st EXCEPT !.pps = add_post_processor(
                                     @, _post_cleanup(r.st.mapped_fields), "after_video")],
              screen |-> r.screen]

RECURSIVE PopAll(_, _, _)
\* for key in keys: information.pop(key, None)
PopAll(information, keys, i) ==
    IF i > Len(keys) THEN information
    ELSE PopAll(Pop(information, keys[i]), keys, i + 1)

PostCleanupPP_run(step, information, fields) ==
    [deletable |-> <<>>, info |-> PopAll(information, CleanupKeys(step, fields), 1)]

---------------------------------------------------------------------------
(* The inputs the model draws *)

Channels == {"A", "B"}

FieldNames == {"channel", "uploader"}

\* the mapped name the i-th category gives under the field fname
MappedName(i, fname) == "N" \o ToString(i) \o "-" \o fname

\* inner mappings of a field: no entry for A, an empty mapped value, a mapped name
InnerMaps(i, fname) ==
    {NoMap, [k \in {"A"} |-> ""], [k \in {"A"} |-> MappedName(i, fname)]}

\* the entries a "field" dict of the i-th category can hold
FieldEntries(i) ==
    UNION {{[name |-> n, map |-> m] : m \in InnerMaps(i, n)} : n \in FieldNames}

\* every "field" dict over FieldNames, in every declaration order
FieldSeqs(i) ==
    {<<>>}
    \cup {<<e>> : e \in FieldEntries(i)}
    \cup {s \in {<<e1, e2>> : e1 \in FieldEntries(i), e2 \in FieldEntries(i)} :
             s[1].name # s[2].name}

CatName(i) == "c" \o ToString(i)

LookupCats(i) ==
    {[name |-> CatName(i), home |-> HomeDir(i), temp |-> TempDir(i), field |-> f] :
        f \in FieldSeqs(i)}

\* the channel the i-th category of a RunDocs document maps: A, B, A, B, ...
ChannelOf(i) == IF i % 2 = 1 THEN "A" ELSE "B"

\* categories with or without a home and a temp directory, mapping one channel
\* under one field
RunCats(i) ==
    {[name |-> CatName(i), home |-> h, temp |-> t,
      field |-> <<[name |-> n, map |-> [k \in {ChannelOf(i)} |-> MappedName(i, n)]]>>] :
        h \in {"", HomeDir(i)}, t \in {"", TempDir(i)}, n \in FieldNames}

RECURSIVE LookupDocsOfLen(_)
\* documents of exactly n categories, the i-th drawn from LookupCats(i)
LookupDocsOfLen(n) ==
    IF n = 0 THEN {<<>>}
    ELSE {Append(d, c) : d \in LookupDocsOfLen(n - 1), c \in LookupCats(n)}

\* documents of at most MaxCats categories
LookupDocs == UNION {LookupDocsOfLen(n) : n \in 0..MaxCats}

\* the documents of the pipeline specification: no category, one, or two
RunDocs ==
    {<<>>} \cup {<<c1>> : c1 \in RunCats(1)} \cup {<<c1, c2>> : c1 \in RunCats(1), c2 \in RunCats(2)}

Templates ==
    {<<>>, <<"%(channel)s", "/%(title)s.%(ext)s">>, <<PLACEHOLDER, "/%(title)s.%(ext)s">>}

Stages == {"pre_process", "after_filter", "video", "post_process", "after_move"}

PPEntry(key, when) == [k \in {"key", "when"} |-> IF k = "key" THEN key ELSE when]

PPEntries ==
    {PPEntry(key, when) : key \in {PP_KEY, "FFmpegMetadata"}, when \in Stages}
    \cup {[k \in {"key"} |-> key] : key \in {PP_KEY, "FFmpegMetadata"}}

GuardPPLists == UNION {[1..n -> PPEntries] : n \in 0..MaxPPs}

RunPPLists ==
    {<<>>, <<PPEntry(PP_KEY, "pre_process")>>, <<PPEntry(PP_KEY, "post_process")>>}

InputRecords ==
    {[k \in {"id"} \cup ks |->
         CASE k = "id" -> "v1"
           [] k = "channel" -> c
           [] k = "filepath" -> f] :
     ks \in SUBSET {"channel", "filepath"}, c \in Channels, f \in {"", "/dl/v1.mp4"}}

InitialPaths == [k \in {"home"} |-> "/downloads"]

\* the resolved directories a document names
DocDirs(doc) ==
    {RealPath(doc[i].home) : i \in 1..Len(doc)} \cup {RealPath(doc[i].temp) : i \in 1..Len(doc)}

\* file system answers during one run: everything can be created, or one directory cannot
Unwritables(doc) == {{}} \cup {{p} : p \in DocDirs(doc) \ {""}}

Extensions == {".json", ".JSON", ".yaml", ".yml", ".txt", ""}

Envs ==
    [ext : Extensions, yaml : BOOLEAN, dir_ok : BOOLEAN, write_ok : BOOLEAN, read_ok : BOOLEAN]

JsonEnv == [ext |-> ".json", yaml |-> TRUE, dir_ok |-> TRUE, write_ok |-> TRUE, read_ok |-> TRUE]

FileOf(doc, syntax) == [present |-> TRUE, syntax |-> syntax, doc |-> doc]

OneCategoryDoc ==
    <<[name |-> CatName(1), home |-> HomeDir(1), temp |-> "",
       field |-> <<[name |-> "channel", map |-> [k \in {"A"} |-> MappedName(1, "channel")]]>>]>>

ConfigFiles ==
    {NoFile, FileOf(OneCategoryDoc, "JSON"), FileOf(OneCategoryDoc, "YAML"),
     FileOf(<<>>, "garbage")}

NoRet == [category |-> EmptyCategory, field |-> "", value |-> ""]

NoCall ==
    [op |-> "", arg |-> EmptyInfo, v |-> "", d |-> "", step |-> 0, exc |-> NoExc,
     swallowed |-> NoExc, deletable |-> <<>>, ret |-> NoRet, screen |-> <<>>]

---------------------------------------------------------------------------
(* The plugin inside the host's pipeline: a constructed instance, the host *)
(* calling run on item records and running the registered cleanup steps.   *)

\* the state after __init__ loaded the document doc from a JSON file
Constructed(doc, tmpl, pp_list) ==
    /\ phase = "ready"
    /\ env = JsonEnv
    /\ config_file = FileOf(doc, "JSON")
    /\ mapping = doc
    /\ mapped_fields = <<>>
    /\ outtmpl = tmpl
    /\ postprocessors = pp_list
    /\ paths = InitialPaths
    /\ fs_dirs = {}
    /\ after_video_pps = <<>>
    /\ info = EmptyInfo
    /\ runs = 0
    /\ call = NoCall

Init ==
    \E doc \in RunDocs, tmpl \in Templates, pp_list \in RunPPLists :
        Constructed(doc, tmpl, pp_list)

\* the host calls run(information) on the record of its next item
Run(information, unwritable) ==
    /\ phase = "ready"
    /\ runs < MaxRuns
    /\ \E r \in {run(information, outtmpl, postprocessors,
                    [mapping |-> mapping, mapped_fields |-> mapped_fields, paths |-> paths,
                     dirs |-> fs_dirs, pps |-> after_video_pps],
                    unwritable)} :
           /\ mapping' = r.st.mapping
           /\ mapped_fields' = r.st.mapped_fields
           /\ paths' = r.st.paths
           /\ fs_dirs' = r.st.dirs
           /\ after_video_pps' = r.st.pps
           /\ info' = r.info
           /\ call' = [NoCall EXCEPT !.op = "run", !.arg = information, !.exc = r.exc,
                                     !.swallowed = r.swallowed, !.deletable = r.deletable,
                                     !.screen = r.screen]
    /\ runs' = runs + 1
    /\ UNCHANGED <<phase, env, config_file, outtmpl, postprocessors>>

\* the host runs the i-th registered after_video step on the current record
Cleanup(i) ==
    /\ phase = "ready"
    /\ call.op \in {"run", "cleanup"}
    /\ i \in 1..Len(after_video_pps)
    /\ \E r \in {PostCleanupPP_run(after_video_pps[i].pp, info, mapped_fields)} :
           /\ info' = r.info
           /\ call' = [NoCall EXCEPT !.op = "cleanup", !.arg = info, !.step = i,
                                     !.deletable = r.deletable]
    /\ UNCHANGED <<phase, env, config_file, mapping, mapped_fields, outtmpl, postprocessors,
                   paths, fs_dirs, after_video_pps, runs>>

Next ==
    \/ \E information \in InputRecords, unwritable \in Unwritables(mapping) :
           Run(information, unwritable)
    \/ \E i \in 1..MaxRuns : Cleanup(i)

Spec == Init /\ [][Next]_vars

---------------------------------------------------------------------------
(* Construction: __init__ loads the mapping document from the config path. *)

InitLoad ==
    /\ phase = "new"
    /\ env \in Envs
    /\ config_file \in ConfigFiles
    /\ mapping = <<>>
    /\ mapped_fields = <<>>
    /\ outtmpl \in Templates
    /\ postprocessors = <<>>
    /\ paths = InitialPaths
    /\ fs_dirs = {}
    /\ after_video_pps = <<>>
    /\ info = EmptyInfo
    /\ runs = 0
    /\ call = NoCall

Construct ==
    /\ phase = "new"
    /\ \E r \in {load_mapping(config_file, env)} :
           /\ config_file' = r.file
           /\ mapping' = r.doc
           /\ phase' = IF r.exc = NoExc THEN "ready" ELSE "failed"
           /\ call' = [NoCall EXCEPT !.op = "__init__", !.exc = r.exc, !.screen = r.screen]
    /\ mapped_fields' = <<>>
    /\ UNCHANGED <<env, outtmpl, postprocessors, paths, fs_dirs, after_video_pps, info, runs>>

NextLoad == Construct

SpecLoad == InitLoad /\ [][NextLoad]_vars

---------------------------------------------------------------------------
(* The lookup engine on its own, over every document of LookupDocs. *)

InitLookup == \E doc \in LookupDocs : Constructed(doc, <<>>, <<>>)

FindCategory(v, d) ==
    /\ phase = "ready"
    /\ call' = [NoCall EXCEPT !.op = "find_category", !.v = v, !.d = d,
                              !.ret = find_category(v, d, mapping)]
    /\ UNCHANGED <<phase, env, config_file, mapping, mapped_fields, outtmpl, postprocessors,
                   paths, fs_dirs, after_video_pps, info, runs>>

NextLookup == \E v \in Channels \cup {""}, d \in Channels \cup {"", "dflt"} : d \in {v, "dflt"} /\ FindCategory(v, d)

SpecLookup == InitLookup /\ [][NextLookup]_vars

---------------------------------------------------------------------------
(* The lifecycle guard on its own, over every list of GuardPPLists. *)

InitGuard == \E pp_list \in GuardPPLists : Constructed(OneCategoryDoc, <<>>, pp_list)

CheckPosition ==
    /\ phase = "ready"
    /\ call' = [NoCall EXCEPT !.op = "check_pp_position",
                              !.exc = check_pp_position(postprocessors)]
    /\ UNCHANGED <<phase, env, config_file, mapping, mapped_fields, outtmpl, postprocessors,
                   paths, fs_dirs, after_video_pps, info, runs>>

NextGuard == CheckPosition

SpecGuard == InitGuard /\ [][NextGuard]_vars

---------------------------------------------------------------------------
(* Properties *)

MappedKeys == {"mapped_" \o n : n \in FieldNames}

\* the output template holds the placeholder %(mapped_channel)s
TemplateHasPlaceholder == PLACEHOLDER \in Range(outtmpl)

\* the step just taken is a call of run
RunStep == runs' = runs + 1

\* the step just taken is the execution of a cleanup step
CleanupStep == call'.op = "cleanup"

\* C1: when outtmpl.default does not hold %(mapped_channel)s, run returns an empty
\* deletion list and the input record with the keys and values it had, injects no
\* mapped_ key, registers no cleanup step, and leaves paths and the injected-key
\* list as they were.
C1_GatePassThrough ==
    [][(RunStep /\ ~TemplateHasPlaceholder) =>
          /\ call'.exc = NoExc
          /\ call'.deletable = <<>>
          /\ info' = call'.arg
          /\ DOMAIN info' \cap MappedKeys = {}
          /\ after_video_pps' = after_video_pps
          /\ paths' = paths
          /\ mapped_fields' = mapped_fields]_vars

\* a run stopped at the gate on a record whose channel the document maps, with the
\* plugin registered at an allowed stage and an output template configured
C1_Witness ==
    /\ call.op = "run"
    /\ ~TemplateHasPlaceholder
    /\ outtmpl # <<>>
    /\ check_pp_position(postprocessors) = NoExc
    /\ "channel" \in DOMAIN call.arg
    /\ find_category(call.arg["channel"], "", mapping).field # ""
    /\ Get(call.arg, "filepath", "") = ""

\* C2: every run that passes the gate registers exactly one cleanup step at the
\* stage after_video, whatever its outcome, and a run stopped at the gate registers
\* none: the number of registered steps is the number of runs when the template
\* holds the placeholder, and zero when it does not.
C2_CleanupScheduled ==
    /\ Len(after_video_pps) = (IF TemplateHasPlaceholder THEN runs ELSE 0)
    /\ \A i \in 1..Len(after_video_pps) :
          /\ after_video_pps[i].when = "after_video"
          /\ after_video_pps[i].pp.name = "PostCleanupPP"

\* two runs passed the gate, the last one failed inside the try block
C2_Witness ==
    /\ runs >= 2
    /\ Len(after_video_pps) = runs
    /\ call.op = "run"
    /\ call.swallowed # NoExc

\* C3: a cleanup step executed on a record removes every key of the injected-key
\* list as it is now (also keys injected after the step was registered; keys absent
\* from the record are skipped), leaves every other key and value untouched, and
\* returns an empty deletion list.
C3_CleanupRemovesInjected ==
    [][CleanupStep =>
          /\ call'.arg = info
          /\ call'.exc = NoExc
          /\ call'.deletable = <<>>
          /\ DOMAIN info' = DOMAIN info \ Range(mapped_fields)
          /\ \A k \in DOMAIN info' : info'[k] = info[k]]_vars

\* a cleanup step ran on a record holding a key injected after the step was
\* registered, while another key of the list was absent from the record
C3_Witness ==
    /\ call.op = "cleanup"
    /\ \E k \in Range(mapped_fields) :
          /\ k \in DOMAIN call.arg
          /\ k \notin Range(after_video_pps[call.step].pp.registered_with)
    /\ \E k \in Range(mapped_fields) : k \notin DOMAIN call.arg
    /\ DOMAIN info \cap MappedKeys = {}
    /\ "channel" \in DOMAIN info

\* C4 (as claimed): whenever the position check or the dispatch raises inside a run
\* that passed the gate, run lets no error out, returns an empty deletion list and
\* the record as it was, appends nothing to the injected-key list, and paths.home
\* and paths.temp keep the values they had before the run.
C4_SilentDegradation ==
    [][(RunStep /\ TemplateHasPlaceholder /\ call'.swallowed # NoExc) =>
          /\ call'.exc = NoExc
          /\ call'.deletable = <<>>
          /\ info' = call'.arg
          /\ mapped_fields' = mapped_fields
          /\ paths' = paths]_vars

\* the state a dispatch reads and writes, as it is now
DispatchState ==
    [mapping |-> mapping, mapped_fields |-> mapped_fields, paths |-> paths,
     dirs |-> fs_dirs, pps |-> after_video_pps]

\* C5: main_processing on a record whose filepath is set and non-empty raises the
\* unimplemented-path error naming the earlier stage to use, and changes neither
\* the record nor any state, in every state of the plugin (every document and every
\* registered stage); a run that reaches the dispatch with such a record ends with
\* that error caught and nothing injected.
C5_PostTransferFails ==
    /\ \A rec \in InputRecords, unwritable \in Unwritables(mapping) :
          Get(rec, "filepath", "") # "" =>
              LET r == main_processing(rec, DispatchState, unwritable)
              IN  /\ r.exc.type = "PostProcessingError"
                  /\ r.exc.msg = "Not implemented yet"
                  /\ r.exc.about = "pre_process"
                  /\ r.info = rec
                  /\ r.st = DispatchState
    /\ (/\ call.op = "run"
        /\ TemplateHasPlaceholder
        /\ check_pp_position(postprocessors) = NoExc
        /\ Get(call.arg, "filepath", "") # "") =>
           /\ call.swallowed.type = "PostProcessingError"
           /\ info = call.arg

\* a run reached the dispatch with a record whose filepath is set and whose channel
\* the document maps
C5_Witness ==
    /\ call.op = "run"
    /\ TemplateHasPlaceholder
    /\ check_pp_position(postprocessors) = NoExc
    /\ Get(call.arg, "filepath", "") # ""
    /\ "channel" \in DOMAIN call.arg
    /\ find_category(call.arg["channel"], "", mapping).field # ""
    /\ call.swallowed.type = "PostProcessingError"

\* the indices of the entries of the host's list that carry the plugin's key
OwnEntries == {i \in 1..Len(postprocessors) : Get(postprocessors[i], "key", "") = PP_KEY}

\* the stage the plugin is registered at: the "when" of the first own entry
RegisteredStage ==
    IF OwnEntries = {} THEN "post_process"
    ELSE LET first == CHOOSE i \in OwnEntries : \A j \in OwnEntries : i <= j
         IN  IF "when" \in DOMAIN postprocessors[first] THEN postprocessors[first]["when"]
             ELSE "post_process"

\* C6: check_pp_position raises exactly when the "when" of the first entry carrying
\* the plugin's key (post_process without such an entry or without a "when") is not
\* pre_process, after_filter or video; the error names that stage and the allowed
\* set; an unregistered plugin is always rejected; and the call changes no host or
\* plugin state.
C6_LifecycleGuard ==
    /\ [](call.op = "check_pp_position" =>
            /\ (call.exc # NoExc) <=> (RegisteredStage \notin {"pre_process", "after_filter", "video"})
            /\ call.exc # NoExc =>
                  /\ call.exc.about = RegisteredStage
                  /\ call.exc.allowed = <<"pre_process", "after_filter", "video">>
            /\ OwnEntries = {} => call.exc # NoExc)
    /\ [][call'.op = "check_pp_position" =>
            UNCHANGED <<phase, env, config_file, mapping, mapped_fields, outtmpl,
                        postprocessors, paths, fs_dirs, after_video_pps, info, runs>>]_vars

\* the guard ran on a list whose first own entry is at an allowed stage while a
\* later own entry is not
C6_Witness ==
    /\ call.op = "check_pp_position"
    /\ call.exc = NoExc
    /\ \E i \in OwnEntries : Get(postprocessors[i], "when", "post_process") = "after_move"

\* the matches of v in the document: (category, field) positions whose inner mapping
\* has v as a key with a non-empty mapped value
Matches(v) ==
    UNION {{<<i, j>> : j \in {x \in 1..Len(mapping[i].field) :
                                 /\ v \in DOMAIN mapping[i].field[x].map
                                 /\ mapping[i].field[x].map[v] # ""}} :
           i \in 1..Len(mapping)}

\* C7: find_category(v, d) returns the category, field name and mapped value of
\* the first match in document order (categories first, then fields), and (empty
\* category, empty field name, d) when there is no match; the call changes neither
\* the document nor any host state.
C7_FirstMatch ==
    /\ [](call.op = "find_category" =>
            IF Matches(call.v) = {}
            THEN call.ret = [category |-> EmptyCategory, field |-> "", value |-> call.d]
            ELSE \E p \in Matches(call.v) :
                    /\ \A q \in Matches(call.v) :
                          p[1] < q[1] \/ (p[1] = q[1] /\ p[2] <= q[2])
                    /\ call.ret = [category |-> mapping[p[1]],
                                   field |-> mapping[p[1]].field[p[2]].name,
                                   value |-> mapping[p[1]].field[p[2]].map[call.v]])
    /\ [][call'.op = "find_category" =>
            UNCHANGED <<phase, env, config_file, mapping, mapped_fields, outtmpl,
                        postprocessors, paths, fs_dirs, after_video_pps, info, runs>>]_vars

\* a lookup of a value that two categories map differently, the first of them under
\* its second field, behind a field with an empty mapped value
C7_Witness ==
    /\ call.op = "find_category"
    /\ Len(mapping) >= 2
    /\ \E p \in Matches(call.v), q \in Matches(call.v) : p[1] < q[1] /\ p[2] = 2
    /\ call.v \in DOMAIN mapping[1].field[1].map
    /\ call.ret.category = mapping[1]
    /\ call.ret.value # call.d

\* C8 (as claimed): after every run that passed the gate and whose pre-transfer
\* dispatch succeeded, the returned record holds mapped_channel: the mapped name
\* when the record's channel is found in the document, the original channel name
\* when it is not.
C8_MappedChannelInjected ==
    (call.op = "run" /\ TemplateHasPlaceholder /\ call.swallowed = NoExc) =>
        /\ "mapped_channel" \in DOMAIN info
        /\ info["mapped_channel"] =
              LET original_channel == Get(call.arg, "channel", "")
              IN  find_category(original_channel, original_channel, mapping).value

\* C9 (as claimed): with a working file system, load_mapping on a path whose
\* extension is not supported fails with the unsupported-file-type error, whether a
\* file exists at the path or not, and leaves no template file behind.
C9_UnsupportedFileType ==
    [][(/\ phase = "new"
        /\ phase' # "new"
        /\ env.dir_ok /\ env.write_ok /\ env.read_ok
        /\ check_config_type(env).exc # NoExc) =>
          /\ call'.exc.type = "ValueError"
          /\ call'.exc.msg = "Unsupported file type"
          /\ config_file' = config_file]_vars

\* C10: the injected-key list only grows, by appending: a run whose pre-transfer
\* dispatch succeeded sets exactly one mapped_<field> key in the record and appends
\* that key to the list; a run stopped at the gate or whose dispatch failed appends
\* nothing and returns the record as it was; a cleanup step leaves the list alone;
\* and every mapped_ key a run wrote into a record is in the list.
C10_InjectedKeyList ==
    [][/\ (RunStep /\ TemplateHasPlaceholder /\ call'.swallowed = NoExc) =>
             \E k \in MappedKeys :
                 /\ mapped_fields' = Append(mapped_fields, k)
                 /\ DOMAIN info' = DOMAIN call'.arg \cup {k}
                 /\ \A j \in DOMAIN call'.arg \ {k} : info'[j] = call'.arg[j]
       /\ (RunStep /\ (~TemplateHasPlaceholder \/ call'.swallowed # NoExc)) =>
             /\ mapped_fields' = mapped_fields
             /\ info' = call'.arg
       /\ CleanupStep => mapped_fields' = mapped_fields
       /\ Len(mapped_fields) <= Len(mapped_fields')
       /\ SubSeq(mapped_fields', 1, Len(mapped_fields)) = mapped_fields
       /\ RunStep =>
             \A k \in (DOMAIN info' \cap MappedKeys) \ DOMAIN call'.arg :
                 k \in Range(mapped_fields')]_vars

\* one run injected a key under a field other than channel, another run failed and
\* appended nothing, and a cleanup step has run since
C10_Witness ==
    /\ Len(mapped_fields) >= 1
    /\ mapped_fields[1] # "mapped_channel"
    /\ Len(after_video_pps) > Len(mapped_fields)
    /\ call.op = "cleanup"

\* the run on the record arg gets as far as the lookup and the path rewriter
ReachesMapping(arg) ==
    /\ TemplateHasPlaceholder
    /\ RegisteredStage \in {"pre_process", "after_filter", "video"}
    /\ Get(arg, "filepath", "") = ""

\* the directory of the given kind in the category the record's channel matches,
\* empty when no category matches or the category has none
MatchedDir(arg, kind) ==
    LET cat == find_category(Get(arg, "channel", ""), "", mapping).category
    IN  IF kind = "home" THEN cat.home ELSE cat.temp

\* paths[kind] is after the step what it was before, present or absent
PathKept(kind) ==
    /\ (kind \in DOMAIN paths') <=> (kind \in DOMAIN paths)
    /\ kind \in DOMAIN paths => paths'[kind] = paths[kind]

\* paths[kind] is after the step the resolved directory dir
PathSet(kind, dir) == kind \in DOMAIN paths' /\ paths'[kind] = RealPath(dir)

\* C11 (as claimed): a run whose record matches a category with a non-empty
\* directory of a kind leaves paths[kind] equal to that resolved directory; every
\* other run and every cleanup step leave it untouched, so the path of the most
\* recent matched category that defined it, or the host's initial one, stays in
\* place.
C11_PathsFollowLastMatch ==
    [][/\ RunStep =>
             \A kind \in {"home", "temp"} :
                 IF ReachesMapping(call'.arg) /\ MatchedDir(call'.arg, kind) # ""
                 THEN PathSet(kind, MatchedDir(call'.arg, kind))
                 ELSE PathKept(kind)
       /\ CleanupStep => paths' = paths]_vars

\* change_path for the kind completed in the run just made: the category has the
\* directory, its creation did not fail and, for temp, the home step before it did
\* not raise
PathApplied(kind) ==
    /\ ReachesMapping(call'.arg)
    /\ MatchedDir(call'.arg, kind) # ""
    /\ IF kind = "home"
       THEN ~(call'.swallowed.type = "OSError"
              /\ call'.swallowed.about = RealPath(MatchedDir(call'.arg, "home")))
       ELSE call'.swallowed = NoExc

\* C11 (amended): a run leaves paths[kind] equal to the resolved directory of the
\* matched category when that category has the directory and change_path for the
\* kind completed (the directory could be created and, for temp, the home step did
\* not raise); every other run and every cleanup step leave paths[kind] untouched,
\* so nothing restores the host's value and an item without a match, or whose
\* category lacks the directory, is processed with the path an earlier item left.
C11_PathsFollowLastApplied ==
    [][/\ RunStep =>
             \A kind \in {"home", "temp"} :
                 IF PathApplied(kind)
                 THEN PathSet(kind, MatchedDir(call'.arg, kind))
                 ELSE PathKept(kind)
       /\ CleanupStep => paths' = paths]_vars

\* an item that reached the mapping without error and whose channel matches no
\* category with a home or temp directory was processed with the home and temp
\* paths an earlier item left behind
C11_Witness ==
    /\ call.op = "run"
    /\ ReachesMapping(call.arg)
    /\ call.swallowed = NoExc
    /\ MatchedDir(call.arg, "home") = ""
    /\ MatchedDir(call.arg, "temp") = ""
    /\ "home" \in DOMAIN paths /\ paths["home"] # InitialPaths["home"]
    /\ "temp" \in DOMAIN paths


====
